---- MODULE Spec2Model ----
(***************************************************************************)
(* Model of app_impresoras_ocupadas.py: the per-table validator            *)
(* (validate_tab), the aggregations (compute_totals, build_calendar_pivot) *)
(* and the load / edit / validate / save cycle of editor_block with the    *)
(* cached snapshot of load_all.                                            *)
(*                                                                         *)
(* A DataFrame is [cols |-> set of column names, rows |-> sequence of      *)
(* functions from cols to cells].  A cell is a tagged record:              *)
(*   [t |-> "null"]                      NaN / None / NaT                  *)
(*   [t |-> "str", s |-> <<chars>>]      text, one character per element   *)
(*   [t |-> "num", n |-> i, d |-> j]     the number i/j (j > 0, lowest     *)
(*                                       terms)                            *)
(*   [t |-> "date", k |-> i]             the i-th calendar day             *)
(* Floats are modelled as exact rationals (rounding is not modelled).      *)
(***************************************************************************)
EXTENDS Integers, Sequences, FiniteSets, TLC

VARIABLES
    vin,      \* validate_tab: the call's arguments [tab, df]
    vout,     \* validate_tab: the returned (ok, msg), or NoResult
    tin,      \* compute_totals: the arguments [pedidos, items]
    tout1,    \* compute_totals(pedidos, items), or NoResult
    tout2,    \* compute_totals(tout1, items), or NoResult
    cin,      \* build_calendar_pivot: the argument cal
    cout,     \* build_calendar_pivot(cal), or NoResult
    remote,   \* the Google Sheet: tab -> stored DataFrame
    cache,    \* st.cache_data entry of load_all: NoCache or a snapshot
    tables,   \* whether the snapshot load_all gave the last run was read
              \* after every completed save (history)
    saves,    \* number of Guardar presses handled so far
    last      \* what the last script run did (history)

vars == <<vin, vout, tin, tout1, tout2, cin, cout, remote, cache, tables, saves, last>>

\* ------------------------------------------------------------------ bounds
MaxRows == 2
MaxCalRows == 3
MaxSaves == 3
MaxOrders == 1
MaxItems == 2

\* ------------------------------------------------------------------ cells
Null == [t |-> "null"]
Str(s) == [t |-> "str", s |-> s]
Num(n, d) == [t |-> "num", n |-> n, d |-> d]
Whole(n) == [t |-> "num", n |-> n, d |-> 1]
Date(k) == [t |-> "date", k |-> k]
NoResult == [t |-> "none"]

IsNull(c) == c.t = "null"

\* pandas isna / dropna / fillna: a cell is missing when it is NaN, None or NaT
isna(c) == IsNull(c)

\* str(x) of a cell, as Series.astype(str) renders it: NaN becomes the text
\* "nan"; text stays itself.  (Numbers and dates never sit in the ID columns
\* of this model.)
astype_str(c) ==
    CASE c.t = "null" -> <<"n", "a", "n">>
      [] c.t = "str"  -> c.s

RECURSIVE lstrip(_)
lstrip(s) == IF s # <<>> /\ Head(s) = " " THEN lstrip(Tail(s)) ELSE s

RECURSIVE rstrip(_)
rstrip(s) ==
    IF s # <<>> /\ s[Len(s)] = " " THEN rstrip(SubSeq(s, 1, Len(s) - 1)) ELSE s

\* str.strip(): leading and trailing whitespace removed
strip(s) == rstrip(lstrip(s))

\* pd.to_numeric(x, errors="coerce"): numbers stay, everything else is NaN
\* (the text cells of this model are never numerals)
to_numeric(c) == IF c.t = "num" THEN c ELSE Null

\* pd.to_datetime(x, errors="coerce").dt.date: dates stay, everything else is
\* NaT (the text cells of this model are never dates)
to_datetime(c) == IF c.t = "date" THEN c ELSE Null

\* ------------------------------------------------------------------ config
TABS == <<"Pedidos", "Items_Pedido", "Impresoras", "Calendario_Asignaciones", "Feriados">>

TabSet == {TABS[i] : i \in 1..Len(TABS)}

REQUIRED_COLS(tab) ==
    CASE tab = "Pedidos" -> <<"Pedido_ID">>
      [] tab = "Items_Pedido" -> <<"Pedido_ID", "Pieza", "Tiempo_por_pieza_min", "Cantidad">>
      [] tab = "Impresoras" -> <<"Impresora_ID">>
      [] tab = "Calendario_Asignaciones" -> <<"Fecha", "Impresora_ID", "Pedido_ID">>
      [] tab = "Feriados" -> <<"Fecha">>
      [] OTHER -> <<>>

DATE_COLS(tab) ==
    CASE tab = "Pedidos" -> {"Fecha_ingreso", "Fecha_inicio", "Fecha_compromiso"}
      [] tab = "Calendario_Asignaciones" -> {"Fecha"}
      [] tab = "Feriados" -> {"Fecha"}
      [] OTHER -> {}

NUM_COLS(tab) ==
    CASE tab = "Pedidos" -> {"Total_min", "Total_horas", "Prioridad"}
      [] tab = "Items_Pedido" -> {"Tiempo_por_pieza_min", "Cantidad", "Total_item_min",
                                  "Impresoras_asignadas", "Horas_dia"}
      [] tab = "Impresoras" -> {"Capacidad_horas_dia"}
      [] tab = "Calendario_Asignaciones" -> {"Horas_asignadas"}
      [] tab = "Feriados" -> {"Factor_capacidad"}
      [] OTHER -> {}

\* ------------------------------------------------------------------ frames
Frame(cols, rows) == [cols |-> cols, rows |-> rows]

RECURSIVE SelectSeq2(_, _)
\* the elements of s at the indices of the (ascending) index sequence idx
SelectSeq2(s, idx) ==
    IF idx = <<>> THEN <<>> ELSE <<s[Head(idx)]>> \o SelectSeq2(s, Tail(idx))

RECURSIVE AscIdx(_, _)
\* the indices lo..hi that are in the set keep, ascending
AscIdx(keep, lohi) ==
    IF lohi[1] > lohi[2] THEN <<>>
    ELSE (IF lohi[1] \in keep THEN <<lohi[1]>> ELSE <<>>)
         \o AscIdx(keep, <<lohi[1] + 1, lohi[2]>>)

\* the sub-sequence of s at the indices in keep
Keep(s, keep) == SelectSeq2(s, AscIdx(keep, <<1, Len(s)>>))

\* ------------------------------------------------------------------ validate_tab
\* The message of a verdict: which rule fired (kind), for which table and
\* column, and the list the message prints (missing columns, duplicated ids).
Msg(kind, tab, col, list) == [kind |-> kind, tab |-> tab, col |-> col, list |-> list]

OK == [ok |-> TRUE, msg |-> Msg("OK", "", "", <<>>)]

Fail(kind, tab, col, list) == [ok |-> FALSE, msg |-> Msg(kind, tab, col, list)]

\* a slip: only the first required column is looked for
missing_cols_first_only(tab, df) ==
    LET needed == REQUIRED_COLS(tab)
    IN IF needed # <<>> /\ Head(needed) \notin df.cols THEN <<Head(needed)>> ELSE <<>>

\* missing = [c for c in needed if c not in df.columns]
missing_cols(tab, df) ==
    LET needed == REQUIRED_COLS(tab)
        in_df(c) == c \notin df.cols
    IN SelectSeq(needed, in_df)

\* ids = df[col].astype(str).str.strip()
stripped_ids(df, col) ==
    [i \in 1..Len(df.rows) |-> strip(astype_str(df.rows[i][col]))]

\* Series.duplicated(): TRUE at every occurrence after the first
duplicated(ids) ==
    {i \in 1..Len(ids) : \E j \in 1..(i - 1) : ids[j] = ids[i]}

\* Series.unique(): first occurrences, in order
unique(s) ==
    Keep(s, {i \in 1..Len(s) : \A j \in 1..(i - 1) : s[j] # s[i]})

\* (ids == "").any()
any_blank(ids) == \E i \in 1..Len(ids) : ids[i] = <<>>

\* (bad < 0).any() on a to_numeric'd column: NaN < 0 is False
lt0(c) == c.t = "num" /\ c.n < 0

\* a slip: the upper bound itself is rejected (bad >= 1)
gt1_inclusive(c) == c.t = "num" /\ c.n >= c.d

\* bad > 1 on a number
gt1(c) == c.t = "num" /\ c.n > c.d

any_negative(df, col) ==
    \E i \in 1..Len(df.rows) : lt0(to_numeric(df.rows[i][col]))

\* fechas = pd.to_datetime(df["Fecha"], errors="coerce").dt.date; fechas.isna().any()
any_bad_date(df, col) ==
    \E i \in 1..Len(df.rows) : isna(to_datetime(df.rows[i][col]))

\* the empty-id / duplicate-id rules of Pedidos and Impresoras
validate_ids(tab, col, df) ==
    IF col \in df.cols
    THEN LET ids == stripped_ids(df, col)
         IN IF any_blank(ids) THEN Fail("empty", tab, col, <<>>)
            ELSE IF duplicated(ids) # {}
                 THEN Fail("duplicated", tab, col, unique(Keep(ids, duplicated(ids))))
                 ELSE OK
    ELSE OK

\* for c in cols: if c in df.columns: if (to_numeric(df[c]) < 0).any(): return False
RECURSIVE validate_nonneg(_, _, _)
validate_nonneg(tab, cs, df) ==
    IF cs = <<>> THEN OK
    ELSE IF Head(cs) \in df.cols /\ any_negative(df, Head(cs))
         THEN Fail("negative", tab, Head(cs), <<>>)
         ELSE validate_nonneg(tab, Tail(cs), df)

\* for c in cols: if c in df.columns: if (df[c].astype(str).str.strip() == "").any()
RECURSIVE validate_nonblank(_, _, _)
validate_nonblank(tab, cs, df) ==
    IF cs = <<>> THEN OK
    ELSE IF Head(cs) \in df.cols /\ any_blank(stripped_ids(df, Head(cs)))
         THEN Fail("empty", tab, Head(cs), <<>>)
         ELSE validate_nonblank(tab, Tail(cs), df)

validate_items(tab, df) ==
    IF "Pedido_ID" \in df.cols /\ any_blank(stripped_ids(df, "Pedido_ID"))
    THEN Fail("empty", tab, "Pedido_ID", <<>>)
    ELSE validate_nonneg(tab, <<"Tiempo_por_pieza_min", "Cantidad">>, df)

validate_calendar(tab, df) ==
    IF "Fecha" \in df.cols /\ any_bad_date(df, "Fecha")
    THEN Fail("bad_date", tab, "Fecha", <<>>)
    ELSE validate_nonblank(tab, <<"Impresora_ID", "Pedido_ID">>, df)

\* fc = to_numeric(df["Factor_capacidad"]); bad = fc.dropna(); ((bad < 0) | (bad > 1)).any()
factor_out_of_range(df) ==
    \E i \in 1..Len(df.rows) :
        LET fc == to_numeric(df.rows[i]["Factor_capacidad"])
        IN ~isna(fc) /\ (lt0(fc) \/ gt1(fc))

validate_holidays(tab, df) ==
    IF "Fecha" \in df.cols /\ any_bad_date(df, "Fecha")
    THEN Fail("bad_date", tab, "Fecha", <<>>)
    ELSE IF "Factor_capacidad" \in df.cols /\ factor_out_of_range(df)
         THEN Fail("factor_range", tab, "Factor_capacidad", <<>>)
         ELSE OK

validate_tab(tab, df) ==
    IF missing_cols(tab, df) # <<>>
    THEN Fail("missing_cols", tab, "", missing_cols(tab, df))
    ELSE CASE tab = "Pedidos" -> validate_ids(tab, "Pedido_ID", df)
           [] tab = "Impresoras" -> validate_ids(tab, "Impresora_ID", df)
           [] tab = "Items_Pedido" -> validate_items(tab, df)
           [] tab = "Calendario_Asignaciones" -> validate_calendar(tab, df)
           [] tab = "Feriados" -> validate_holidays(tab, df)
           [] OTHER -> OK

\* ------------------------------------------------------------------ inputs
\* The cells a loader or the editing surface can put in a column.
IdCells ==
    {Null, Str(<<>>), Str(<<" ">>), Str(<<"A">>), Str(<<" ", "A">>), Str(<<"B">>)}

IdCellsFew == {Null, Str(<<" ">>), Str(<<"A">>)}

CountCells == {Str(<<"x">>), Whole(-1), Whole(0), Whole(1)}

FactorCells == {Null, Str(<<"x">>), Num(-1, 2), Whole(0), Num(1, 2), Whole(1), Num(3, 2)}

DateCells == {Null, Str(<<"x">>), Date(1)}

\* the columns a table of the model may carry, and the cells of each
ModelCols(tab) ==
    CASE tab = "Pedidos" -> {"Pedido_ID"}
      [] tab = "Impresoras" -> {"Impresora_ID"}
      [] tab = "Items_Pedido" -> {"Pedido_ID", "Pieza", "Tiempo_por_pieza_min", "Cantidad"}
      [] tab = "Calendario_Asignaciones" -> {"Fecha", "Impresora_ID", "Pedido_ID"}
      [] tab = "Feriados" -> {"Fecha", "Factor_capacidad"}
      [] OTHER -> {"Pedido_ID"}

CellsOf(tab, col) ==
    CASE col \in {"Tiempo_por_pieza_min", "Cantidad"} -> CountCells
      [] col = "Factor_capacidad" -> FactorCells
      [] col = "Fecha" -> DateCells
      [] col = "Pieza" -> {Str(<<"A">>)}
      [] tab \in {"Pedidos", "Impresoras", "Otra"} -> IdCells
      [] OTHER -> IdCellsFew

TabCells(tab) == UNION {CellsOf(tab, c) : c \in ModelCols(tab)}

RowsOf(tab, cols) ==
    {r \in [cols -> TabCells(tab)] : \A c \in cols : r[c] \in CellsOf(tab, c)}

\* ------------------------------------------------------------------ SpecValidate
IdleTotals == tin = NoResult /\ tout1 = NoResult /\ tout2 = NoResult

IdlePivot == cin = NoResult /\ cout = NoResult

IdleEditor ==
    remote = NoResult /\ cache = NoResult /\ tables = NoResult /\ saves = 0 /\ last = NoResult

IdleValidate == vin = NoResult /\ vout = NoResult

\* a call of validate_tab on a table of the model: the table is first built
\* row by row (AddRowValidate), then validated (CallValidate)
InitValidate ==
    /\ \E tab \in TabSet \cup {"Otra"} : \E cols \in SUBSET ModelCols(tab) :
          vin = [tab |-> tab, df |-> Frame(cols, <<>>)]
    /\ vout = NoResult
    /\ IdleTotals /\ IdlePivot /\ IdleEditor

AddRowValidate ==
    /\ vout = NoResult
    /\ Len(vin.df.rows) < MaxRows
    /\ \E r \in RowsOf(vin.tab, vin.df.cols) :
          vin' = [vin EXCEPT !.df.rows = Append(@, r)]
    /\ UNCHANGED <<vout, tin, tout1, tout2, cin, cout, remote, cache, tables, saves, last>>

CallValidate ==
    /\ vout = NoResult
    /\ vout' = validate_tab(vin.tab, vin.df)
    /\ UNCHANGED <<vin, tin, tout1, tout2, cin, cout, remote, cache, tables, saves, last>>

NextValidate == AddRowValidate \/ CallValidate

SpecValidate == InitValidate /\ [][NextValidate]_vars

\* ------------------------------------------------------------------ claims on validate_tab
\* What the specification calls an empty identifier: a cell with no value,
\* or text that is empty or only whitespace.
IsEmptyId(c) ==
    \/ c.t = "null"
    \/ c.t = "str" /\ \A i \in 1..Len(c.s) : c.s[i] = " "

\* two identifier cells carry the same value (text compared without its
\* surrounding whitespace)
SameId(a, b) ==
    /\ ~IsEmptyId(a) /\ ~IsEmptyId(b)
    /\ strip(a.s) = strip(b.s)

SomeEmptyId(df, col) == \E i \in 1..Len(df.rows) : IsEmptyId(df.rows[i][col])

SomeRepeatedId(df, col) ==
    \E i, j \in 1..Len(df.rows) : i < j /\ SameId(df.rows[i][col], df.rows[j][col])

\* a cell that parses as a number and is below zero
IsNegative(c) == c.t = "num" /\ c.n < 0

SomeNegative(df, col) == \E i \in 1..Len(df.rows) : IsNegative(df.rows[i][col])

SomeBadDate(df, col) == \E i \in 1..Len(df.rows) : df.rows[i][col].t # "date"

\* a parsed, non-missing factor outside [0, 1]
SomeFactorOutside(df) ==
    \E i \in 1..Len(df.rows) :
        LET c == df.rows[i]["Factor_capacidad"]
        IN c.t = "num" /\ (c.n < 0 \/ c.n > c.d)

Validated == vout # NoResult

RequiredSet(tab) == {REQUIRED_COLS(tab)[i] : i \in 1..Len(REQUIRED_COLS(tab))}

SeqSet(s) == {s[i] : i \in 1..Len(s)}

\* C3: a Pedidos dataset with the Pedido_ID column fails validation if and
\* only if some Pedido_ID is empty (missing, empty or whitespace-only) or some
\* Pedido_ID value appears in more than one row.
C3_PedidosFailIffEmptyOrDuplicate ==
    (Validated /\ vin.tab = "Pedidos" /\ "Pedido_ID" \in vin.df.cols)
        => (~vout.ok <=> (SomeEmptyId(vin.df, "Pedido_ID")
                            \/ SomeRepeatedId(vin.df, "Pedido_ID")))

\* C6: validate_tab fails with the missing-required-columns message, naming
\* the table and exactly the missing fields, if and only if some required
\* field is absent from the column set, whatever the rows hold; a table name
\* with no registered rules validates as (True, "OK").
C6_MissingColumnsIffAbsent ==
    Validated =>
        LET absent == RequiredSet(vin.tab) \ vin.df.cols
        IN /\ (vout.msg.kind = "missing_cols") <=> (absent # {})
           /\ absent # {} =>
                 /\ ~vout.ok
                 /\ vout.msg.tab = vin.tab
                 /\ SeqSet(vout.msg.list) = absent
                 /\ Len(vout.msg.list) = Cardinality(absent)
           /\ vin.tab \notin TabSet => vout = OK

\* C6 witness: a table with rows and two required columns absent was rejected
C6_Witness ==
    /\ Validated
    /\ vout.msg.kind = "missing_cols"
    /\ Len(vout.msg.list) >= 2
    /\ Len(vin.df.rows) >= 1

\* C7: an Items_Pedido dataset with all required columns fails validation if
\* and only if some Pedido_ID is empty or some numeric Tiempo_por_pieza_min or
\* Cantidad is negative; unparseable values never cause a failure.
C7_ItemsFailIffEmptyOrNegative ==
    (Validated /\ vin.tab = "Items_Pedido" /\ RequiredSet(vin.tab) \subseteq vin.df.cols)
        => (~vout.ok <=> (\/ SomeEmptyId(vin.df, "Pedido_ID")
                          \/ SomeNegative(vin.df, "Tiempo_por_pieza_min")
                          \/ SomeNegative(vin.df, "Cantidad")))

\* C8 as stated: a Feriados dataset with a Factor_capacidad column fails
\* validation if and only if some parsed, non-missing factor is outside [0, 1].
C8_Original_FactorIff ==
    (Validated /\ vin.tab = "Feriados" /\ "Factor_capacidad" \in vin.df.cols)
        => (~vout.ok <=> SomeFactorOutside(vin.df))

\* C8 amended: a Feriados dataset with a Factor_capacidad column whose Fecha
\* column is present and holds only valid dates fails validation if and only
\* if some parsed, non-missing factor is outside [0, 1]; 0 and 1 are accepted,
\* missing and unparseable factors are accepted.
C8_FactorIffGivenDates ==
    (/\ Validated /\ vin.tab = "Feriados" /\ "Factor_capacidad" \in vin.df.cols
     /\ "Fecha" \in vin.df.cols /\ ~SomeBadDate(vin.df, "Fecha"))
        => /\ ~vout.ok <=> SomeFactorOutside(vin.df)
           /\ ~vout.ok => vout.msg.kind = "factor_range"

\* C8 witness: valid dates, one factor on the upper bound and one above it,
\* rejected for the factor
C8_Witness ==
    /\ Validated /\ vin.tab = "Feriados" /\ "Factor_capacidad" \in vin.df.cols
    /\ "Fecha" \in vin.df.cols /\ ~SomeBadDate(vin.df, "Fecha")
    /\ \E i \in 1..Len(vin.df.rows) : vin.df.rows[i]["Factor_capacidad"] = Whole(1)
    /\ \E i \in 1..Len(vin.df.rows) : vin.df.rows[i]["Factor_capacidad"] = Num(3, 2)
    /\ vout.msg.kind = "factor_range"

\* The rules of a table in the order the specification lists them, each as
\* <<kind, column>>, after the required-columns rule.
RulesOf(tab) ==
    CASE tab = "Pedidos" -> <<<<"empty", "Pedido_ID">>, <<"duplicated", "Pedido_ID">>>>
      [] tab = "Impresoras" -> <<<<"empty", "Impresora_ID">>, <<"duplicated", "Impresora_ID">>>>
      [] tab = "Items_Pedido" -> <<<<"empty", "Pedido_ID">>,
                                   <<"negative", "Tiempo_por_pieza_min">>,
                                   <<"negative", "Cantidad">>>>
      [] tab = "Calendario_Asignaciones" -> <<<<"bad_date", "Fecha">>,
                                              <<"empty", "Impresora_ID">>,
                                              <<"empty", "Pedido_ID">>>>
      [] tab = "Feriados" -> <<<<"bad_date", "Fecha">>, <<"factor_range", "Factor_capacidad">>>>
      [] OTHER -> <<>>

\* whether a dataset violates a rule (a rule on an absent column is not applicable)
Violates(df, rule) ==
    /\ rule[2] \in df.cols
    /\ CASE rule[1] = "empty" -> SomeEmptyId(df, rule[2])
         [] rule[1] = "duplicated" -> SomeRepeatedId(df, rule[2])
         [] rule[1] = "negative" -> SomeNegative(df, rule[2])
         [] rule[1] = "bad_date" -> SomeBadDate(df, rule[2])
         [] rule[1] = "factor_range" -> SomeFactorOutside(df)

\* the verdict the ordered rules prescribe: the first violated rule, or OK
FirstViolated(tab, df) ==
    IF RequiredSet(tab) \ df.cols # {} THEN <<"missing_cols", "">>
    ELSE LET rs == RulesOf(tab)
             bad == {i \in 1..Len(rs) : Violates(df, rs[i])}
         IN IF bad = {} THEN <<"OK", "">>
            ELSE rs[CHOOSE i \in bad : \A j \in bad : i <= j]

VerdictIsFirstViolated ==
    /\ <<vout.msg.kind, vout.msg.col>> = FirstViolated(vin.tab, vin.df)
    /\ vout.ok <=> vout.msg.kind = "OK"

\* C10: validate_tab returns the message of the first violated rule in the
\* fixed order (required columns, then the table's rules in order), and
\* (True, "OK") exactly when no applicable rule is violated.
C10_FirstViolatedRuleOnly == Validated => VerdictIsFirstViolated

\* a dataset in which no identifier cell is missing (NaN / None)
NoMissingIds(df) ==
    \A c \in df.cols \cap {"Pedido_ID", "Impresora_ID"} :
        \A i \in 1..Len(df.rows) : df.rows[i][c].t # "null"

\* Supporting lemma: on datasets whose identifier cells are all present the
\* verdict is the first violated rule, so the order of evaluation is the one
\* stated and only missing identifiers escape the rules.
OrderHoldsWithoutMissingIds ==
    (Validated /\ NoMissingIds(vin.df)) => VerdictIsFirstViolated

\* ------------------------------------------------------------------ numbers
RECURSIVE gcd(_, _)
gcd(a, b) == IF b = 0 THEN a ELSE gcd(b, a % b)

abs(n) == IF n < 0 THEN -n ELSE n

\* the number n/d (d > 0) in lowest terms
Ratio(n, d) == LET g == gcd(abs(n), d) IN Num(n \div g, d \div g)

\* a * b on numeric cells: NaN if either operand is NaN
mul(a, b) == IF isna(a) \/ isna(b) THEN Null ELSE Ratio(a.n * b.n, a.d * b.d)

\* a + b on numbers
add(a, b) == Ratio(a.n * b.d + b.n * a.d, a.d * b.d)

\* a / k on a numeric cell: NaN stays NaN
div(a, k) == IF isna(a) THEN Null ELSE Ratio(a.n, a.d * k)

\* Series.sum() of a group: NaN skipped, 0 when nothing is left
RECURSIVE sum_skipna(_)
sum_skipna(cells) ==
    IF cells = <<>> THEN Whole(0)
    ELSE IF isna(Head(cells)) THEN sum_skipna(Tail(cells))
         ELSE add(Head(cells), sum_skipna(Tail(cells)))

\* Series.fillna(other): a missing cell takes the other series' cell
fillna(a, b) == IF isna(a) THEN b ELSE a

\* ------------------------------------------------------------------ compute_totals
\* DataFrame.empty: no rows or no columns
empty(df) == df.cols = {} \/ Len(df.rows) = 0

\* df[c] = vals (a new or replaced column)
assign(df, c, vals) ==
    Frame(df.cols \cup {c},
          [i \in 1..Len(df.rows) |->
              [k \in df.cols \cup {c} |-> IF k = c THEN vals[i] ELSE df.rows[i][k]]])

\* a column renamed
rename(df, old, new) ==
    Frame((df.cols \ {old}) \cup {new},
          [i \in 1..Len(df.rows) |->
              [k \in (df.cols \ {old}) \cup {new} |->
                  IF k = new THEN df.rows[i][old] ELSE df.rows[i][k]]])

\* it.groupby("Pedido_ID", dropna=False)["Total_item_min"].sum(): one sum per
\* distinct key, the missing key included
groupby_sum(it, key, val) ==
    LET keys == {it.rows[i][key] : i \in 1..Len(it.rows)}
        members(k) == Keep(it.rows, {i \in 1..Len(it.rows) : it.rows[i][key] = k})
    IN [k \in keys |-> sum_skipna([i \in 1..Len(members(k)) |-> to_numeric(members(k)[i][val])])]

\* p.merge(agg, on=key, how="left"): every row of p, in order, with the sum of
\* its key (NaN when agg has no such key); a column of p already named val
\* becomes val_x and the joined one val_y (pandas' suffixes)
merge_left(p, agg, key, val) ==
    LET joined == [i \in 1..Len(p.rows) |->
                      IF p.rows[i][key] \in DOMAIN agg THEN agg[p.rows[i][key]] ELSE Null]
    IN IF val \in p.cols
       THEN assign(rename(p, val, "Total_item_min_x"), "Total_item_min_y", joined)
       ELSE assign(p, val, joined)

Returned(df) == [t |-> "ok", df |-> df]

Raised(exc, what) == [t |-> "raise", exc |-> exc, what |-> what]

\* lines 254-257: Total_item_min = Tiempo_por_pieza_min * Cantidad when absent
derive_item_totals(it) ==
    IF /\ ~empty(it)
       /\ "Total_item_min" \notin it.cols
       /\ "Tiempo_por_pieza_min" \in it.cols
       /\ "Cantidad" \in it.cols
    THEN assign(it, "Total_item_min",
                [i \in 1..Len(it.rows) |->
                    mul(to_numeric(it.rows[i]["Tiempo_por_pieza_min"]),
                        to_numeric(it.rows[i]["Cantidad"]))])
    ELSE it

\* line 264: p["Total_min"].fillna(p["Total_item_min"]) on one row
fill_total_min(own, joined) == fillna(own, joined)

\* lines 259-265 once the guard of line 259 holds
rollup(p, it) ==
    LET agg == groupby_sum(it, "Pedido_ID", "Total_item_min")
        m == merge_left(p, agg, "Pedido_ID", "Total_item_min")
        \* p.get("Total_min") is None when the column is absent; to_numeric(None) is NaN
        own == [i \in 1..Len(m.rows) |->
                   IF "Total_min" \in m.cols THEN to_numeric(m.rows[i]["Total_min"]) ELSE Null]
    IN IF "Total_item_min" \notin m.cols
       THEN Raised("KeyError", "Total_item_min")
       ELSE LET filled == [i \in 1..Len(m.rows) |->
                              fill_total_min(own[i], m.rows[i]["Total_item_min"])]
                p2 == assign(m, "Total_min", filled)
            IN Returned(assign(p2, "Total_horas",
                               [i \in 1..Len(p2.rows) |-> div(p2.rows[i]["Total_min"], 60)]))

compute_totals(pedidos, items) ==
    LET it == derive_item_totals(items)
    IN IF /\ ~empty(it)
          /\ "Pedido_ID" \in it.cols
          /\ "Total_item_min" \in it.cols
          /\ "Pedido_ID" \in pedidos.cols
       THEN rollup(pedidos, it)
       ELSE Returned(pedidos)

\* ------------------------------------------------------------------ SpecTotals
OrderCols == {"Pedido_ID", "Total_min", "Total_horas"}

ItemCols == {"Pedido_ID", "Tiempo_por_pieza_min", "Cantidad", "Total_item_min"}

TotalsCells(tab, col) ==
    CASE col = "Pedido_ID" /\ tab = "Pedidos" -> {Null, Str(<<"A">>)}
      [] col = "Pedido_ID" -> {Str(<<"A">>), Str(<<"B">>)}
      [] col = "Total_min" -> {Null, Str(<<"x">>), Whole(120)}
      [] col = "Total_horas" -> {Whole(9)}
      [] col = "Tiempo_por_pieza_min" -> {Str(<<"x">>), Whole(10), Whole(5)}
      [] col = "Cantidad" -> {Whole(3), Whole(2)}
      [] col = "Total_item_min" -> {Null, Whole(7)}

TotalsRows(tab, cols) ==
    LET cells == UNION {TotalsCells(tab, c) : c \in cols}
    IN {r \in [cols -> cells] : \A c \in cols : r[c] \in TotalsCells(tab, c)}

InitTotals ==
    /\ \E pc \in SUBSET OrderCols : \E ic \in SUBSET ItemCols :
          tin = [pedidos |-> Frame(pc, <<>>), items |-> Frame(ic, <<>>)]
    /\ tout1 = NoResult /\ tout2 = NoResult
    /\ IdleValidate /\ IdlePivot /\ IdleEditor

\* the Pedidos sheet gets a row (before any item is entered)
AddOrder ==
    /\ tout1 = NoResult
    /\ Len(tin.items.rows) = 0
    /\ Len(tin.pedidos.rows) < MaxOrders
    /\ \E r \in TotalsRows("Pedidos", tin.pedidos.cols) :
          tin' = [tin EXCEPT !.pedidos.rows = Append(@, r)]
    /\ UNCHANGED <<vin, vout, tout1, tout2, cin, cout, remote, cache, tables, saves, last>>

\* the Items_Pedido sheet gets a row
AddItem ==
    /\ tout1 = NoResult
    /\ Len(tin.items.rows) < MaxItems
    /\ \E r \in TotalsRows("Items_Pedido", tin.items.cols) :
          tin' = [tin EXCEPT !.items.rows = Append(@, r)]
    /\ UNCHANGED <<vin, vout, tout1, tout2, cin, cout, remote, cache, tables, saves, last>>

\* pedidos_calc = compute_totals(tables["Pedidos"], tables["Items_Pedido"])
CallTotals ==
    /\ tout1 = NoResult
    /\ tout1' = compute_totals(tin.pedidos, tin.items)
    /\ UNCHANGED <<vin, vout, tin, tout2, cin, cout, remote, cache, tables, saves, last>>

\* compute_totals run again on its own output with the same items
CallTotalsAgain ==
    /\ tout1 # NoResult /\ tout1.t = "ok"
    /\ tout2 = NoResult
    /\ tout2' = compute_totals(tout1.df, tin.items)
    /\ UNCHANGED <<vin, vout, tin, tout1, cin, cout, remote, cache, tables, saves, last>>

NextTotals == AddOrder \/ AddItem \/ CallTotals \/ CallTotalsAgain

SpecTotals == InitTotals /\ [][NextTotals]_vars

\* ------------------------------------------------------------------ claims on compute_totals
\* C2: compute_totals is idempotent: run again on its own output with the
\* same items it completes and returns that output unchanged.
C2_TotalsIdempotent ==
    tout2 # NoResult => (tout2.t = "ok" /\ tout2.df = tout1.df)

\* the duration of item row j: its Total_item_min, or Tiempo_por_pieza_min *
\* Cantidad when the table has no such field (missing when an operand is)
ItemMinutes(items, j) ==
    LET r == items.rows[j]
        num(c) == IF c.t = "num" THEN c ELSE Null
    IN IF "Total_item_min" \in items.cols THEN num(r["Total_item_min"])
       ELSE IF {"Tiempo_por_pieza_min", "Cantidad"} \subseteq items.cols
            THEN mul(num(r["Tiempo_por_pieza_min"]), num(r["Cantidad"]))
            ELSE Null

RECURSIVE SumOver(_, _)
\* the sum of the known durations of the item rows in the index set js
SumOver(items, js) ==
    IF js = {} THEN Whole(0)
    ELSE LET j == CHOOSE x \in js : TRUE
             rest == SumOver(items, js \ {j})
         IN IF ItemMinutes(items, j).t = "num" THEN add(ItemMinutes(items, j), rest) ELSE rest

\* the joined sum of an order: over the items with its Pedido_ID, missing
\* when there is none
JoinedMinutes(order, items) ==
    LET js == IF "Pedido_ID" \in items.cols /\ "Pedido_ID" \in DOMAIN order
              THEN {j \in 1..Len(items.rows) : items.rows[j]["Pedido_ID"] = order["Pedido_ID"]}
              ELSE {}
    IN IF js = {} THEN Null ELSE SumOver(items, js)

\* the Total_min the specification prescribes for an order
ExpectedMinutes(order, items) ==
    LET own == IF "Total_min" \in DOMAIN order /\ order["Total_min"].t = "num"
               THEN order["Total_min"] ELSE Null
    IN IF own.t = "num" THEN own ELSE JoinedMinutes(order, items)

\* every output order carries the prescribed Total_min and Total_horas
TotalsAsPrescribed ==
    /\ tout1.t = "ok"
    /\ Len(tout1.df.rows) = Len(tin.pedidos.rows)
    /\ \A i \in 1..Len(tout1.df.rows) :
          LET exp == ExpectedMinutes(tin.pedidos.rows[i], tin.items)
          IN /\ {"Total_min", "Total_horas"} \subseteq tout1.df.cols
             /\ tout1.df.rows[i]["Total_min"] = exp
             /\ tout1.df.rows[i]["Total_horas"] =
                   (IF exp.t = "num" THEN Ratio(exp.n, exp.d * 60) ELSE Null)

\* C5: for every Pedidos and Items_Pedido table, each output order has its
\* own Total_min kept, or filled with the sum of its items' durations when
\* missing or unparseable, and Total_horas = Total_min / 60, also when no item
\* matches or the items table is empty.
C5_TotalsFilledAndHoursRecomputed ==
    tout1 # NoResult => TotalsAsPrescribed

\* Supporting lemma: the prescription of C5 holds whenever the items table
\* has rows, both tables have Pedido_ID and the item durations are given or
\* derivable.
TotalsWhenItemsJoin ==
    (/\ tout1 # NoResult
     /\ Len(tin.items.rows) > 0
     /\ "Pedido_ID" \in tin.items.cols /\ "Pedido_ID" \in tin.pedidos.cols
     /\ \/ "Total_item_min" \in tin.items.cols
        \/ {"Tiempo_por_pieza_min", "Cantidad"} \subseteq tin.items.cols)
        => TotalsAsPrescribed

\* the scenario of the specification: order A without Total_min, items
\* 10 min x 3 and 5 min x 2, output Total_min = 40 and Total_horas = 2/3
ScenarioFortyMinutes ==
    /\ tout1 # NoResult /\ tout1.t = "ok"
    /\ tin.pedidos = Frame({"Pedido_ID"}, <<[Pedido_ID |-> Str(<<"A">>)]>>)
    /\ tin.items.cols = {"Pedido_ID", "Tiempo_por_pieza_min", "Cantidad"}
    /\ tin.items.rows =
          <<[Pedido_ID |-> Str(<<"A">>), Tiempo_por_pieza_min |-> Whole(10), Cantidad |-> Whole(3)],
            [Pedido_ID |-> Str(<<"A">>), Tiempo_por_pieza_min |-> Whole(5), Cantidad |-> Whole(2)]>>
    /\ tout1.df.rows[1]["Total_min"] = Whole(40)
    /\ tout1.df.rows[1]["Total_horas"] = Num(2, 3)

\* ------------------------------------------------------------------ build_calendar_pivot
\* pd.DataFrame(): no rows, no columns
EmptyGrid == [index |-> <<>>, columns |-> {}, at |-> <<>>]

RECURSIVE sort_dates(_)
\* the dates of a set in ascending order
sort_dates(ds) ==
    IF ds = {} THEN <<>>
    ELSE LET lo == CHOOSE d \in ds : \A e \in ds : d.k <= e.k
         IN <<lo>> \o sort_dates(ds \ {lo})

\* GroupBy.first(): the first non-null value of the group, None when all are null
RECURSIVE first(_)
first(cells) ==
    IF cells = <<>> THEN Null
    ELSE IF ~isna(Head(cells)) THEN Head(cells) ELSE first(Tail(cells))

\* df.pivot_table(index="Fecha", columns="Impresora_ID", values="Pedido_ID",
\* aggfunc="first") followed by sort_index(): rows with a missing key are not
\* grouped, groups whose value is all null are dropped, the grid is indexed by
\* the remaining dates in ascending order
pivot_table(df) ==
    IF "Fecha" \notin df.cols THEN Raised("KeyError", "Fecha")
    ELSE IF "Impresora_ID" \notin df.cols THEN Raised("KeyError", "Impresora_ID")
    ELSE LET n == Len(df.rows)
             key(i) == <<df.rows[i]["Fecha"], df.rows[i]["Impresora_ID"]>>
             grouped == {i \in 1..n : ~isna(key(i)[1]) /\ ~isna(key(i)[2])}
             group(k) == Keep(df.rows, {i \in grouped : key(i) = k})
             agg(k) == first([j \in 1..Len(group(k)) |-> group(k)[j]["Pedido_ID"]])
             kept == {k \in {key(i) : i \in grouped} : ~isna(agg(k))}
             dates == {k[1] : k \in kept}
             printers == {k[2] : k \in kept}
         IN Returned([index |-> sort_dates(dates),
                      columns |-> printers,
                      at |-> [k \in dates \X printers |-> IF k \in kept THEN agg(k) ELSE Null]])

build_calendar_pivot(cal) ==
    IF empty(cal) THEN Returned(EmptyGrid)
    ELSE LET df1 == IF "Fecha" \in cal.cols
                    THEN assign(cal, "Fecha",
                                [i \in 1..Len(cal.rows) |-> to_datetime(cal.rows[i]["Fecha"])])
                    ELSE cal
             df2 == IF "Impresora_ID" \in df1.cols
                    THEN assign(df1, "Impresora_ID",
                                [i \in 1..Len(df1.rows) |->
                                    Str(astype_str(df1.rows[i]["Impresora_ID"]))])
                    ELSE df1
         IN IF "Pedido_ID" \notin df2.cols THEN Returned(EmptyGrid)
            ELSE pivot_table(df2)

\* ------------------------------------------------------------------ SpecPivot
CalCols == {"Fecha", "Impresora_ID", "Pedido_ID"}

CalCells(col) ==
    CASE col = "Fecha" -> {Null, Date(1), Date(2)}
      [] col = "Impresora_ID" -> {Null, Str(<<"A">>), Str(<<"B">>)}
      [] col = "Pedido_ID" -> {Null, Str(<<"A">>), Str(<<"B">>)}

CalRows(cols) ==
    LET cells == UNION {CalCells(c) : c \in cols}
    IN {r \in [cols -> cells] : \A c \in cols : r[c] \in CalCells(c)}

InitPivot ==
    /\ \E cols \in SUBSET CalCols : cin = Frame(cols, <<>>)
    /\ cout = NoResult
    /\ IdleValidate /\ IdleTotals /\ IdleEditor

\* the Calendario_Asignaciones sheet gets a row
AddAssignment ==
    /\ cout = NoResult
    /\ Len(cin.rows) < MaxCalRows
    /\ \E r \in CalRows(cin.cols) : cin' = [cin EXCEPT !.rows = Append(@, r)]
    /\ UNCHANGED <<vin, vout, tin, tout1, tout2, cout, remote, cache, tables, saves, last>>

\* pivot = build_calendar_pivot(cal)
CallPivot ==
    /\ cout = NoResult
    /\ cout' = build_calendar_pivot(cin)
    /\ UNCHANGED <<vin, vout, tin, tout1, tout2, cin, remote, cache, tables, saves, last>>

NextPivot == AddAssignment \/ CallPivot

SpecPivot == InitPivot /\ [][NextPivot]_vars

\* ------------------------------------------------------------------ claims on build_calendar_pivot
\* a Calendario_Asignaciones input: the three columns and at least one row
IsCalendarInput(cal) == cal.cols = CalCols /\ Len(cal.rows) > 0

\* the rows of the input that carry a (Date, Printer_ID) pair
PairRows(cal) == {i \in 1..Len(cal.rows) : cal.rows[i]["Fecha"].t = "date"}

PairOf(cal, i) ==
    <<cal.rows[i]["Fecha"],
      IF cal.rows[i]["Impresora_ID"].t = "str" THEN cal.rows[i]["Impresora_ID"]
      ELSE Str(<<"n", "a", "n">>)>>

\* the first input row with the pair of row i
FirstRowOf(cal, i) ==
    CHOOSE j \in PairRows(cal) :
        /\ PairOf(cal, j) = PairOf(cal, i)
        /\ \A h \in PairRows(cal) : PairOf(cal, h) = PairOf(cal, i) => j <= h

IsAscending(s) == \A a, b \in 1..Len(s) : a < b => s[a].k < s[b].k

\* the grid's cell for a pair; a pair the grid does not carry shows empty
CellAt(grid, pair) == IF pair \in DOMAIN grid.at THEN grid.at[pair] ELSE Null

\* Cells are first occurrences; grid rows are distinct input dates in
\* ascending order, every date with an order among them.  (A date or pair
\* whose rows all lack the Pedido_ID may or may not show: its cell is empty
\* either way.)
FirstOccurrenceGrid ==
    /\ cout.t = "ok"
    /\ \A i \in PairRows(cin) :
          CellAt(cout.df, PairOf(cin, i)) = cin.rows[FirstRowOf(cin, i)]["Pedido_ID"]
    /\ SeqSet(cout.df.index) \subseteq {cin.rows[i]["Fecha"] : i \in PairRows(cin)}
    /\ \A i \in PairRows(cin) :
          cin.rows[i]["Pedido_ID"].t # "null" => cin.rows[i]["Fecha"] \in SeqSet(cout.df.index)
    /\ IsAscending(cout.df.index)

\* C4: for every non-empty Calendario_Asignaciones input the grid cell of each
\* (Date, Printer_ID) pair present in the input is the Pedido_ID of the first
\* input row with that pair, and the grid rows are the distinct dates in
\* ascending order.
C4_FirstOccurrenceWins ==
    (cout # NoResult /\ IsCalendarInput(cin)) => FirstOccurrenceGrid

\* Supporting lemma: C4 holds on inputs in which no Pedido_ID is missing.
FirstOccurrenceWhenOrdersPresent ==
    (/\ cout # NoResult /\ IsCalendarInput(cin)
     /\ \A i \in 1..Len(cin.rows) : cin.rows[i]["Pedido_ID"].t # "null")
        => FirstOccurrenceGrid

\* the scenario of the specification: (D1, A, ORD-A) then (D1, A, ORD-B)
\* gives the cell ORD-A
ScenarioFirstOfTwo ==
    /\ cout # NoResult /\ cout.t = "ok"
    /\ cin.rows = <<[Fecha |-> Date(1), Impresora_ID |-> Str(<<"A">>), Pedido_ID |-> Str(<<"A">>)],
                    [Fecha |-> Date(1), Impresora_ID |-> Str(<<"A">>), Pedido_ID |-> Str(<<"B">>)]>>
    /\ cout.df.at[<<Date(1), Str(<<"A">>)>>] = Str(<<"A">>)

\* ------------------------------------------------------------------ sheet I/O and cache
\* Modelled for the build in which gspread_dataframe is importable (lines
\* 11-12), the recommended one.
NoCache == [t |-> "nocache"]

UnnamedCols == {"Unnamed: 1"}

\* normalize_columns: str(c).strip() on each header (the one padded header of
\* the model is " Pedido_ID")
normalize_name(c) == IF c = " Pedido_ID" THEN "Pedido_ID" ELSE c

normalize_columns(df) ==
    Frame({normalize_name(c) : c \in df.cols},
          [i \in 1..Len(df.rows) |->
              [k \in {normalize_name(c) : c \in df.cols} |->
                  df.rows[i][CHOOSE c \in df.cols : normalize_name(c) = k]]])

\* df.dropna(how="all"): rows whose cells are all missing are removed
dropna_all(df) ==
    Frame(df.cols,
          Keep(df.rows, {i \in 1..Len(df.rows) : \E c \in df.cols : ~isna(df.rows[i][c])}))

\* df.loc[:, ~columns.str.contains("^Unnamed")]
drop_unnamed(df) ==
    Frame(df.cols \ UnnamedCols,
          [i \in 1..Len(df.rows) |-> [k \in df.cols \ UnnamedCols |-> df.rows[i][k]]])

clean_df_for_save(df) == dropna_all(normalize_columns(drop_unnamed(df)))

\* a cell as the sheet stores it: an empty string is an empty cell, a date
\* is stored as its ISO text
to_sheet(c) ==
    CASE c.t = "str" /\ c.s = <<>> -> Null
      [] c.t = "date" -> [t |-> "iso", k |-> c.k]
      [] OTHER -> c

map_cells(df, f(_, _)) ==
    Frame(df.cols, [i \in 1..Len(df.rows) |-> [k \in df.cols |-> f(k, df.rows[i][k])]])

\* what sheet_save_tab leaves in the worksheet: ws.clear() and the cleaned frame
written(df) ==
    LET store(k, c) == to_sheet(c)
    IN map_cells(clean_df_for_save(df), store)

\* ws.clear() alone: a blank worksheet reads as a frame without columns
BlankSheet == Frame({}, <<>>)

\* pd.to_datetime(...).dt.date on a cell of a sheet or of the editor: ISO text
\* parses to its date
coerce_date(c) == IF c.t = "iso" THEN Date(c.k) ELSE to_datetime(c)

coerce_dates(tab, df) ==
    LET f(k, c) == IF k \in DATE_COLS(tab) THEN coerce_date(c) ELSE c
    IN map_cells(df, f)

coerce_nums(tab, df) ==
    LET f(k, c) == IF k \in NUM_COLS(tab) THEN to_numeric(c) ELSE c
    IN map_cells(df, f)

\* get_as_dataframe(ws).dropna(how="all"), then clean_df_for_save
sheet_load_tab(ws) == clean_df_for_save(dropna_all(ws))

\* the body of load_all: every tab loaded and coerced
read_all(sheet) ==
    [tab \in TabSet |-> coerce_nums(tab, coerce_dates(tab, sheet_load_tab(sheet[tab])))]

\* @st.cache_data: the cached snapshot if there is one, else the body's
\* result, which is then cached.  fresh records that the snapshot was read
\* from the sheet after every save completed so far.
load_all(c, sheet) ==
    IF c # NoCache THEN c ELSE [t |-> "snap", data |-> read_all(sheet), fresh |-> TRUE]

\* a save completed: a snapshot read earlier is older than the sheet
Outdated(c) == IF c = NoCache THEN c ELSE [c EXCEPT !.fresh = FALSE]

\* a slip: the cache is left as it is after a save
cache_kept_after_save(c) == c

\* line 370: load_all.clear() after sheet_save_tab returned
cache_after_save(c) == NoCache

\* a slip: the Guardar button is never disabled
can_save_always(ok) == TRUE

\* line 365-366: can_save = ok; the button is disabled when not can_save, and
\* a disabled button cannot be clicked
can_save(ok) == ok

\* ------------------------------------------------------------------ SpecEditor
EditCells(tab, col) ==
    CASE col = "Pedido_ID" /\ tab = "Pedidos" -> {Null, Str(<<>>), Str(<<"A">>)}
      [] col = "Pedido_ID" -> {Null, Str(<<"A">>)}
      [] col = "Impresora_ID" -> {Str(<<>>), Str(<<"A">>)}
      [] col = "Tiempo_por_pieza_min" -> {Whole(-1), Whole(1)}
      [] col = "Cantidad" -> {Whole(1)}
      [] col = "Fecha" -> {Null, Date(1)}
      [] col = "Factor_capacidad" -> {Whole(1), Num(3, 2)}
      [] col = "Pieza" -> {Str(<<"A">>)}

\* the rows a user can type into a table's editor
EditRows ==
    [tab \in TabSet |->
        LET cells == UNION {EditCells(tab, c) : c \in ModelCols(tab)}
        IN {r \in [ModelCols(tab) -> cells] :
               \A c \in ModelCols(tab) : r[c] \in EditCells(tab, c)}]

\* what st.data_editor (num_rows="dynamic") can return for a loaded table:
\* the table as loaded, or with one row added, deleted or retyped
EditorFrames(tab, df) ==
    LET rows == {[c \in df.cols |-> r[c]] : r \in EditRows[tab]}
        n == Len(df.rows)
    IN {df}
       \cup {Frame(df.cols, Append(df.rows, r)) : r \in rows}
       \cup {Frame(df.cols, Keep(df.rows, (1..n) \ {i})) : i \in 1..n}
       \cup {Frame(df.cols, [df.rows EXCEPT ![i] = r]) : i \in 1..n, r \in rows}

\* the sheet as first shared: headers only, one of them padded, and a stray
\* unnamed column
InitialSheet ==
    [tab \in TabSet |->
        IF tab = "Pedidos" THEN Frame({" Pedido_ID", "Unnamed: 1"}, <<>>)
        ELSE Frame(ModelCols(tab), <<>>)]

InitEditor ==
    /\ remote = InitialSheet
    /\ cache = NoCache
    /\ tables = NoResult
    /\ saves = 0
    /\ last = NoResult
    /\ IdleValidate /\ IdleTotals /\ IdlePivot

RerunPending == last # NoResult /\ last.t = "saved"

\* the top of a script run (lines 299-302): the reload button, then load_all
Loaded(reload) == load_all(IF reload THEN NoCache ELSE cache, remote)

\* editor_block up to the verdict (lines 347-360) on what the editor returned
Edited(tab, e) == coerce_nums(tab, coerce_dates(tab, e))

\* ttl=30: the cached snapshot expires
Expire ==
    /\ cache # NoCache
    /\ cache' = NoCache
    /\ UNCHANGED <<vin, vout, tin, tout1, tout2, cin, cout, remote, tables, saves, last>>

\* a script run in which "Recargar (forzar)" is pressed (lines 299-302):
\* load_all.clear(), then the page is drawn from a new snapshot
RunReload ==
    /\ ~RerunPending
    /\ cache' = Loaded(TRUE)
    /\ tables' = [fresh |-> cache'.fresh]
    /\ last' = [t |-> "reloaded",
                ok |-> validate_tab(TABS[1], cache'.data[TABS[1]]).ok,
                attempted |-> FALSE, changed |-> FALSE, cache_kept |-> FALSE]
    /\ UNCHANGED <<vin, vout, tin, tout1, tout2, cin, cout, remote, saves>>

\* a script run in which no button is pressed: the page is opened or rerun,
\* or a cell of tab's editor is edited
RunView ==
    \E tab \in TabSet : \E snap \in {Loaded(FALSE)} :
        \E e \in EditorFrames(tab, snap.data[tab]) :
            /\ cache' = snap
            /\ tables' = [fresh |-> snap.fresh]
            /\ last' = [t |-> "viewed",
                        ok |-> validate_tab(tab, Edited(tab, e)).ok,
                        attempted |-> FALSE, changed |-> FALSE, cache_kept |-> TRUE]
            /\ UNCHANGED <<vin, vout, tin, tout1, tout2, cin, cout, remote, saves>>

\* a script run in which "Guardar <tab>" is pressed (lines 364-372); io is
\* how the sheet answers: connect/ensure_tabs stop the run, the worksheet
\* lookup or ws.clear() raises, the write after ws.clear() raises, or all
\* succeeds
RunSave ==
    \E tab \in TabSet : \E snap \in {Loaded(FALSE)} :
        \E e \in EditorFrames(tab, snap.data[tab]) :
            \E edited \in {Edited(tab, e)} : \E verdict \in {validate_tab(tab, edited)} :
                \E io \in {"stop", "raise", "raise_after_clear", "ok"} :
                    /\ ~RerunPending
                    /\ saves < MaxSaves
                    /\ can_save(verdict.ok)
                    /\ tables' = [fresh |-> snap.fresh]
                    /\ remote' = CASE io = "ok" -> [remote EXCEPT ![tab] = written(edited)]
                                   [] io = "raise_after_clear" -> [remote EXCEPT ![tab] = BlankSheet]
                                   [] OTHER -> remote
                    /\ cache' = IF io = "ok" THEN cache_after_save(Outdated(snap)) ELSE snap
                    /\ saves' = saves + 1
                    /\ last' = [t |-> CASE io = "ok" -> "saved"
                                        [] io = "stop" -> "stopped"
                                        [] OTHER -> "save_raised",
                                ok |-> verdict.ok, attempted |-> TRUE,
                                changed |-> remote' # remote, cache_kept |-> cache' = snap]
                    /\ UNCHANGED <<vin, vout, tin, tout1, tout2, cin, cout>>

NextEditor == Expire \/ RunReload \/ RunView \/ RunSave

SpecEditor == InitEditor /\ [][NextEditor]_vars

\* ------------------------------------------------------------------ claims on editor_block and load_all
\* C1: a write to the sheet is attempted, and the sheet changes, only in a
\* run whose validate_tab verdict on the edited table was True; when the
\* verdict is a failure no save is attempted and the sheet stays as it was.
C1_SaveOnlyWhenValid ==
    last # NoResult =>
        /\ (last.attempted \/ last.changed) => last.ok
        /\ ~last.ok => (~last.attempted /\ ~last.changed)

\* C1 witness: after a table was saved, an edit that fails validation is
\* shown and no save is attempted
C1_Witness ==
    /\ last # NoResult /\ last.t = "viewed" /\ ~last.ok /\ ~last.attempted
    /\ saves >= 1
    /\ remote # InitialSheet

\* C9: every snapshot load_all hands to a run was read after all the saves
\* completed before that run; right after a completed save the cache is
\* empty; a save that raises or is stopped leaves the cache as it was.
C9_CacheInvalidatedAfterSave ==
    /\ tables # NoResult => tables.fresh
    /\ (last # NoResult /\ last.t = "saved") => cache = NoCache
    /\ (last # NoResult /\ last.t \in {"save_raised", "stopped"}) => last.cache_kept

\* C9 witness: a row was saved to Pedidos and the run after it works on a
\* newly read snapshot that holds the row
C9_Witness ==
    /\ last # NoResult /\ last.t = "viewed"
    /\ Len(remote["Pedidos"].rows) = 1
    /\ cache # NoCache /\ cache.fresh
    /\ cache.data["Pedidos"].rows = <<[Pedido_ID |-> Str(<<"A">>)]>>
    /\ tables.fresh

====
